---------------------------- MODULE Spec2Model ----------------------------
(***************************************************************************)
(* Model of the coverage route planning engine of dji-way:                 *)
(*   src/src/utils/polygonRouteGenerator.js  (route generator, optimizer,  *)
(*                                            statistics, camera spacing)  *)
(*   src/src/utils/coordTransform.js         (GCJ-02 <-> WGS84)            *)
(*                                                                         *)
(* Numbers.  The program computes in float64.  The model computes in       *)
(* fixed point, every division rounding to the nearest unit:               *)
(*   geographic coordinates   1e-7 degree  (the grid of toFixed(7))        *)
(*   planar coordinates       1 centimetre                                 *)
(*   areas / cross products   1 cm^2       (0.01 m^2 = 100 cm^2)           *)
(*   heights, speeds          1 metre, 1 metre/second                      *)
(*   overlap rate             1 percent                                    *)
(*   camera lengths           0.01 mm;  image sizes in pixels              *)
(*   sines and cosines        1e-4                                         *)
(***************************************************************************)
EXTENDS Integers, Sequences, FiniteSets, TLC

VARIABLES
    pc,              \* position: "idle", "sweep" (inside the while loop), "done", ...
    boundaryPoints,  \* argument of generatePolygonRoute
    options,         \* argument of generatePolygonRoute
    finalSpacing,    \* generatePolygonRoute: effective spacing (cm)
    center,          \* generatePolygonRoute: rotation centre
    rotatedPolygon,  \* generatePolygonRoute: polygon in the rotated frame
    currentY,        \* generatePolygonRoute: Y of the next scan line
    lineIndex,       \* generatePolygonRoute: number of lines swept so far
    waypoints,       \* generatePolygonRoute: raw planar waypoints
    result,          \* value returned by generatePolygonRoute
    arg,             \* argument of a direct call of a pure helper
    ret,             \* value returned by that call
    earlier,         \* history: completed calls of generatePolygonRoute, in order
    waypointsRef,    \* index.vue: the ref waypoints (boundary points on the map)
    missionConfig,   \* index.vue: the ref missionConfig
    scanPath,        \* index.vue: the ref scanPath
    routeStats,      \* index.vue: the ref routeStats, Null or <<record>>
    autoGenerateTimer, \* index.vue: handle of the debounce timer, 0 for null
    timers,          \* the host's pending timeouts (their handles)
    watcherPending,  \* the watcher callback is queued for the next flush
    burst            \* history: watcher runs and automatic generations since the
                     \* watcher last found no timer pending

\* the state of the application component
appVars == <<waypointsRef, missionConfig, scanPath, routeStats,
             autoGenerateTimer, timers, watcherPending>>

\* the state of the route planning engine
engineVars == <<pc, boundaryPoints, options, finalSpacing, center, rotatedPolygon,
                currentY, lineIndex, waypoints, result, arg, ret>>

\* what is recorded about the past
historyVars == <<earlier, burst>>

vars == <<engineVars, historyVars, appVars>>

(***************************************************************************)
(* Bounds of the model                                                     *)
(***************************************************************************)
\* boundary points lie on a (GridN+1) x (GridN+1) grid
GridN == 2
\* iterations of the sweep loop that are followed
MaxLines == 14
\* longest sequence handed directly to optimizeRoutePath
MaxOptLen == 4
\* longest sequence handed directly to calculateRouteStats
MaxStatsLen == 2
\* completed calls of generatePolygonRoute that are remembered
MaxRemembered == 2
\* watcher runs counted in one burst
MaxBurst == 3

(***************************************************************************)
(* Arithmetic                                                              *)
(***************************************************************************)
Abs(a) == IF a < 0 THEN -a ELSE a
Min(a, b) == IF a < b THEN a ELSE b
Max(a, b) == IF a > b THEN a ELSE b

\* a / b in float64, here rounded to the nearest unit
RDiv(a, b) ==
    LET n == IF b < 0 THEN -a ELSE a
        d == Abs(b)
    IN  (2 * n + d) \div (2 * d)

\* Newton's iteration downwards from x >= sqrt(n)
RECURSIVE SqrtFrom(_, _)
SqrtFrom(n, x) ==
    LET y == (x + n \div x) \div 2
    IN  IF y >= x THEN x ELSE SqrtFrom(n, y)

\* Math.sqrt, to the unit below
Sqrt(n) ==
    IF n = 0 THEN 0
    ELSE SqrtFrom(n, 2 ^ (CHOOSE k \in 0..15 : 4 ^ k >= n /\ (k = 0 \/ 4 ^ (k - 1) < n)))

\* Math.cos of a whole number of degrees, a multiple of 15 in 0..180, in 1e-4
CosDeg(a) ==
    LET tab == <<10000, 9659, 8660, 7071, 5000, 2588, 0>>
    IN  IF a <= 90 THEN tab[(a \div 15) + 1] ELSE -tab[((180 - a) \div 15) + 1]

\* Math.sin of a whole number of degrees, a multiple of 15 in 0..180, in 1e-4
SinDeg(a) == CosDeg(Abs(90 - a))

TrigScale == 10 ^ 4

\* Array.prototype.sort((a, b) => a - b)
RECURSIVE InsertSorted(_, _)
InsertSorted(s, x) ==
    IF s = <<>> THEN <<x>>
    ELSE IF x < Head(s) THEN <<x>> \o s
    ELSE <<Head(s)>> \o InsertSorted(Tail(s), x)

RECURSIVE SortAscending(_)
SortAscending(s) ==
    IF s = <<>> THEN <<>>
    ELSE InsertSorted(SortAscending(Tail(s)), Head(s))

(***************************************************************************)
(* Planar geometry kernel                                                  *)
(***************************************************************************)
\* EARTH_RADIUS * PI / 180 = 111319.49 m per degree = CmPerUnitNum / CmPerUnitDen
\* centimetres per 1e-7 degree
CmPerUnitNum == 11132
CmPerUnitDen == 10000

\* one degree, in geographic units
Degree == 10 ^ 7

\* Math.cos(origin.lat * PI / 180) as a fraction <<num, den>>, for the two
\* latitude bands the model places boundaries in (the equator and 60 N)
CosLat(lat) == IF lat >= 60 * Degree THEN <<1, 2>> ELSE <<1, 1>>

projectToMeters(lat, lng, origin) ==
    LET c == CosLat(origin.lat)
    IN  [x |-> RDiv((lng - origin.lng) * CmPerUnitNum * c[1], CmPerUnitDen * c[2]),
         y |-> RDiv((lat - origin.lat) * CmPerUnitNum, CmPerUnitDen)]

unprojectFromMeters(x, y, origin) ==
    LET c == CosLat(origin.lat)
    IN  [lat |-> origin.lat + RDiv(y * CmPerUnitDen, CmPerUnitNum),
         lng |-> origin.lng + RDiv(x * CmPerUnitDen * c[2], CmPerUnitNum * c[1])]

\* angleDeg is the angle in degrees, negative for a clockwise rotation
rotatePoint(point, angleDeg, c) ==
    LET cos == CosDeg(Abs(angleDeg))
        sin == IF angleDeg < 0 THEN -SinDeg(Abs(angleDeg)) ELSE SinDeg(Abs(angleDeg))
        dx  == point.x - c.x
        dy  == point.y - c.y
    IN  [x |-> c.x + RDiv(dx * cos - dy * sin, TrigScale),
         y |-> c.y + RDiv(dx * sin + dy * cos, TrigScale)]

RECURSIVE FoldMin(_, _)
FoldMin(s, acc) == IF s = <<>> THEN acc ELSE FoldMin(Tail(s), Min(acc, Head(s)))
RECURSIVE FoldMax(_, _)
FoldMax(s, acc) == IF s = <<>> THEN acc ELSE FoldMax(Tail(s), Max(acc, Head(s)))
RECURSIVE Sum(_)
Sum(s) == IF s = <<>> THEN 0 ELSE Head(s) + Sum(Tail(s))

\* Infinity and -Infinity of getBoundingBox, beyond every planar coordinate
Infinity == 1000000000

getBoundingBox(polygon) ==
    LET xs == [i \in 1..Len(polygon) |-> polygon[i].x]
        ys == [i \in 1..Len(polygon) |-> polygon[i].y]
    IN  [minX |-> FoldMin(xs, Infinity),  minY |-> FoldMin(ys, Infinity),
         maxX |-> FoldMax(xs, -Infinity), maxY |-> FoldMax(ys, -Infinity)]

getPolygonCenter(polygon) ==
    [x |-> RDiv(Sum([i \in 1..Len(polygon) |-> polygon[i].x]), Len(polygon)),
     y |-> RDiv(Sum([i \in 1..Len(polygon) |-> polygon[i].y]), Len(polygon))]

\* Math.max(0.1, (avgDistance - marginMeters) / avgDistance) as <<num, den>>;
\* avgDistance = 0 gives -Infinity for a positive margin, hence 0.1
ShrinkScale(avgDistance, marginMeters) ==
    IF avgDistance = 0 \/ 10 * (avgDistance - marginMeters) < avgDistance
    THEN <<1, 10>>
    ELSE <<avgDistance - marginMeters, avgDistance>>

\* one vertex moved toward the centre by the scale ratio
ScalePoint(p, c, scale) ==
    [x |-> c.x + RDiv((p.x - c.x) * scale[1], scale[2]),
     y |-> c.y + RDiv((p.y - c.y) * scale[1], scale[2])]

\* distance from a vertex to the centre
Distance(p, c) == Sqrt((p.x - c.x) * (p.x - c.x) + (p.y - c.y) * (p.y - c.y))

AvgDistance(polygon, c) ==
    RDiv(Sum([i \in 1..Len(polygon) |-> Distance(polygon[i], c)]), Len(polygon))

ShrinkAbout(polygon, c, scale) ==
    [i \in 1..Len(polygon) |-> ScalePoint(polygon[i], c, scale)]

ShrinkFrom(polygon, marginMeters, c) ==
    ShrinkAbout(polygon, c, ShrinkScale(AvgDistance(polygon, c), marginMeters))

shrinkPolygon(polygon, marginMeters) ==
    ShrinkFrom(polygon, marginMeters, getPolygonCenter(polygon))

(***************************************************************************)
(* Camera / spacing model                                                  *)
(***************************************************************************)
\* CAMERA_PRESETS.m30t
CameraM30T ==
    [sensorWidth |-> 630, sensorHeight |-> 470, focalLength |-> 488,
     imageWidth |-> 1920, imageHeight |-> 1440]

\* gsd in 1e-4 m per pixel, coverageWidth in 1e-4 m, the result in cm
calculateSpacing(height, camera, overlapRate, direction) ==
    LET sensor == IF direction = "lateral" THEN camera.sensorWidth
                                           ELSE camera.sensorHeight
        imageSize == IF direction = "lateral" THEN camera.imageWidth
                                              ELSE camera.imageHeight
        gsd == RDiv(height * sensor * (10 ^ 4), camera.focalLength * imageSize)
        coverageWidth == gsd * imageSize
    IN  RDiv(coverageWidth * (100 - overlapRate), 10 ^ 4)

(***************************************************************************)
(* Path optimizer                                                          *)
(***************************************************************************)
\* the tolerance 0.01 (m^2) of optimizeRoutePath, in cm^2
CollinearTolerance == 100

\* the test with a point at the tolerance kept
KeepPoint_AtTolerance(wps, i) ==
    Abs((wps[i].x - wps[i - 1].x) * (wps[i + 1].y - wps[i].y)
        - (wps[i].y - wps[i - 1].y) * (wps[i + 1].x - wps[i].x)) >= CollinearTolerance

\* the test of optimizeRoutePath on the interior point i (1-based)
KeepPoint(wps, i) ==
    LET prev == wps[i - 1]
        curr == wps[i]
        next == wps[i + 1]
        dx1 == curr.x - prev.x
        dy1 == curr.y - prev.y
        dx2 == next.x - curr.x
        dy2 == next.y - curr.y
        crossProduct == Abs(dx1 * dy2 - dy1 * dx2)
    IN  crossProduct > CollinearTolerance

\* the for loop of optimizeRoutePath from interior point i on
RECURSIVE KeptFrom(_, _)
KeptFrom(wps, i) ==
    IF i > Len(wps) - 1 THEN <<>>
    ELSE (IF KeepPoint(wps, i) THEN <<wps[i]>> ELSE <<>>) \o KeptFrom(wps, i + 1)

\* the optimizer without its final push of the last point
optimizeRoutePath_NoLastPush(wps) ==
    IF Len(wps) <= 2 THEN wps
    ELSE <<wps[1]>> \o KeptFrom(wps, 2)

optimizeRoutePath(wps) ==
    IF Len(wps) <= 2 THEN wps
    ELSE <<wps[1]>> \o KeptFrom(wps, 2) \o <<wps[Len(wps)]>>

(***************************************************************************)
(* Coverage route generator                                                *)
(***************************************************************************)
\* a destructured option with its default
Opt(o, k, d) == IF k \in DOMAIN o THEN o[k] ELSE d

DefaultSpacing == 3000
DefaultAngle == 0
DefaultMargin == 0
DefaultHeight == 50
DefaultSpeed == 5
DefaultOverlapRate == 70

\* the validation with the limit off by one
TooFewPoints_OffByOne(bp) == Len(bp) < 2

\* the parameter validation of generatePolygonRoute
TooFewPoints(bp) == Len(bp) < 3

\* let finalSpacing = spacing; if (useCamera && camera) ...
FinalSpacing(o) ==
    IF Opt(o, "useCamera", FALSE) /\ "camera" \in DOMAIN o
    THEN calculateSpacing(Opt(o, "height", DefaultHeight), o.camera,
                          Opt(o, "overlapRate", DefaultOverlapRate), "lateral")
    ELSE Opt(o, "spacing", DefaultSpacing)

\* steps 1-2: origin and projection
Project(bp) ==
    [i \in 1..Len(bp) |-> projectToMeters(bp[i].lat, bp[i].lng, bp[1])]

\* step 3: margin
ApplyMargin(polygon, margin) ==
    IF margin > 0 THEN shrinkPolygon(polygon, margin) ELSE polygon

\* step 5: rotation by -angle about the centre
Rotate(polygon, angle, c) ==
    [i \in 1..Len(polygon) |-> rotatePoint(polygon[i], -angle, c)]

\* the crossing test with both ends of a sloping edge counted
Crosses_BothEnds(p1, p2, y) ==
    p1.y # p2.y /\ ((p1.y <= y /\ p2.y >= y) \/ (p1.y >= y /\ p2.y <= y))

\* the crossing test of one edge against the scan line
Crosses(p1, p2, y) == (p1.y <= y /\ p2.y > y) \/ (p1.y > y /\ p2.y <= y)

\* the X of the intersection of edge p1-p2 with the scan line
IntersectionX(p1, p2, y) ==
    p1.x + RDiv((y - p1.y) * (p2.x - p1.x), p2.y - p1.y)

\* the inner for loop over the edges, from edge i on (1-based)
RECURSIVE IntersectionsFrom(_, _, _)
IntersectionsFrom(poly, y, i) ==
    IF i > Len(poly) THEN <<>>
    ELSE LET j  == (i % Len(poly)) + 1
             p1 == poly[i]
             p2 == poly[j]
         IN  (IF Crosses(p1, p2, y) THEN <<IntersectionX(p1, p2, y)>> ELSE <<>>)
             \o IntersectionsFrom(poly, y, i + 1)

\* the two waypoints of one in-out pair, reversed on odd rows
PairWaypoints(x1, x2, y, isLeftToRight) ==
    IF isLeftToRight THEN <<[x |-> x1, y |-> y], [x |-> x2, y |-> y]>>
                     ELSE <<[x |-> x2, y |-> y], [x |-> x1, y |-> y]>>

\* the pairing loop over the sorted intersections
RECURSIVE PairsFrom(_, _, _)
PairsFrom(xs, y, isLeftToRight) ==
    IF Len(xs) < 2 THEN <<>>
    ELSE PairWaypoints(xs[1], xs[2], y, isLeftToRight)
         \o PairsFrom(Tail(Tail(xs)), y, isLeftToRight)

\* the waypoints one iteration of the while loop pushes
LineWaypoints(poly, y, idx) ==
    PairsFrom(SortAscending(IntersectionsFrom(poly, y, 1)), y, idx % 2 = 0)

\* the index taken from the position in the raw sequence, before optimization
ResultIndex_Raw(i, p, rawWaypoints) ==
    (CHOOSE k \in 1..Len(rawWaypoints) :
        rawWaypoints[k] = p /\ \A j \in 1..(k - 1) : rawWaypoints[j] # p \/ j < i) - 1

\* the index a waypoint of the result carries
ResultIndex(i, p, rawWaypoints) == i - 1

\* step 8: optimization
Optimized(rawWaypoints, o) ==
    IF Opt(o, "optimizePath", TRUE) /\ Len(rawWaypoints) > 4
    THEN optimizeRoutePath(rawWaypoints) ELSE rawWaypoints

\* steps 9-10 for one waypoint: reverse rotation, unprojection, toFixed(7)
ResultPoint(i, p, rawWaypoints, o, origin, c, unrotated) ==
    LET coords == unprojectFromMeters(unrotated.x, unrotated.y, origin)
    IN  [lat |-> coords.lat, lng |-> coords.lng,
         height |-> Opt(o, "height", DefaultHeight),
         speed |-> Opt(o, "speed", DefaultSpeed),
         index |-> ResultIndex(i, p, rawWaypoints)]

ResultOf(optimizedWaypoints, rawWaypoints, o, origin, c) ==
    [i \in 1..Len(optimizedWaypoints) |->
        ResultPoint(i, optimizedWaypoints[i], rawWaypoints, o, origin, c,
                    rotatePoint(optimizedWaypoints[i], Opt(o, "angle", DefaultAngle), c))]

\* steps 8-10
BuildResult(rawWaypoints, o, origin, c) ==
    ResultOf(Optimized(rawWaypoints, o), rawWaypoints, o, origin, c)

\* the while loop from the scan line y on; MaxLines bounds the lines followed
RECURSIVE SweepFrom(_, _, _, _, _)
SweepFrom(poly, y, idx, maxY, spacing) ==
    IF ~(y <= maxY) \/ idx >= MaxLines THEN <<>>
    ELSE LineWaypoints(poly, y, idx) \o SweepFrom(poly, y + spacing, idx + 1, maxY, spacing)

\* steps 6-7
SweepAll(rotated, bbox, spacing) ==
    SweepFrom(rotated, bbox.minY + RDiv(spacing, 2), 0, bbox.maxY, spacing)

\* steps 4-10
RouteAbout(bp, o, polygon, c) ==
    BuildResult(SweepAll(Rotate(polygon, Opt(o, "angle", DefaultAngle), c),
                         getBoundingBox(Rotate(polygon, Opt(o, "angle", DefaultAngle), c)),
                         FinalSpacing(o)),
                o, bp[1], c)

\* steps 3-10
RouteOver(bp, o, polygon) ==
    IF Opt(o, "margin", DefaultMargin) > 0 /\ Len(polygon) < 3 THEN <<>>
    ELSE RouteAbout(bp, o, polygon, getPolygonCenter(polygon))

\* the value generatePolygonRoute returns
generatePolygonRoute(bp, o) ==
    IF TooFewPoints(bp) THEN <<>>
    ELSE RouteOver(bp, o, ApplyMargin(Project(bp), Opt(o, "margin", DefaultMargin)))

(***************************************************************************)
(* Route statistics                                                        *)
(***************************************************************************)
\* a number, and the string toFixed(2) makes of one; both carry centimetres
Number(cm) == [type |-> "number", cm |-> cm]
Fixed2(cm) == [type |-> "string", cm |-> cm]

\* Math.ceil(a / b) for a >= 0, b > 0
CeilDiv(a, b) == (a + b - 1) \div b

\* the distance the for loop adds for the leg from p1 to p2, in cm
LegDistance(p1, p2) ==
    RDiv(Sqrt((p2.lng - p1.lng) * (p2.lng - p1.lng)
              + (p2.lat - p1.lat) * (p2.lat - p1.lat)) * CmPerUnitNum, CmPerUnitDen)

RECURSIVE TotalDistance(_)
TotalDistance(wps) ==
    IF Len(wps) < 2 THEN 0
    ELSE LegDistance(wps[1], wps[2]) + TotalDistance(Tail(wps))

\* waypoints[0]?.speed || 5
AvgSpeed(wps) ==
    IF "speed" \in DOMAIN wps[1] /\ wps[1].speed # 0 THEN wps[1].speed ELSE 5

\* the record returned for fewer than 2 waypoints
ShortRouteStats(wps) ==
    [totalDistance |-> Number(0), flightTime |-> 0, photoCount |-> 0]

\* the record returned for 2 waypoints or more, from the summed distance
LongRouteStats(wps, totalDistance) ==
    [totalDistance |-> Fixed2(totalDistance),
     flightTime |-> CeilDiv(totalDistance, 100 * AvgSpeed(wps)),
     photoCount |-> Len(wps)]

\* the statistics with the short-route test off by one
calculateRouteStats_OffByOne(wps) ==
    IF Len(wps) < 1 THEN ShortRouteStats(wps)
    ELSE LongRouteStats(wps, TotalDistance(wps))

calculateRouteStats(wps) ==
    IF Len(wps) < 2 THEN ShortRouteStats(wps)
    ELSE LongRouteStats(wps, TotalDistance(wps))

(***************************************************************************)
(* Geodetic transform                                                      *)
(***************************************************************************)
\* the region bounds of isInChina, in 1e-7 degree
ChinaMinLng == 720040000
ChinaMaxLng == 1378347000
ChinaMinLat == 8293000
ChinaMaxLat == 558271000

\* the region test with the longitude and latitude ranges joined by "or"
isInChina_Or(lng, lat) ==
    (lng >= ChinaMinLng /\ lng <= ChinaMaxLng) \/ (lat >= ChinaMinLat /\ lat <= ChinaMaxLat)

isInChina(lng, lat) ==
    lng >= ChinaMinLng /\ lng <= ChinaMaxLng /\ lat >= ChinaMinLat /\ lat <= ChinaMaxLat

\* The offsets <<dlng, dlat>> that transformLng, transformLat and the
\* radius-of-curvature scaling give, in 1e-7 degree.  They are tabulated at
\* nine points of the region (longitudes 72.004, 116.4, 137.8347; latitudes
\* 0.8293, 39.9, 55.8271); a point takes the offsets of the nearest one.
TransformOffset(lng, lat) ==
    LET col == IF lng < 94 * Degree THEN 1 ELSE IF lng < 127 * Degree THEN 2 ELSE 3
        row == IF lat < 20 * Degree THEN 1 ELSE IF lat < 48 * Degree THEN 2 ELSE 3
        tab == << << <<37092, 12628>>, <<42340, 2395>>,  <<54472, 2225>>  >>,
                  << <<36943, 8630>>,  <<62429, 14036>>, <<93168, 20185>> >>,
                  << <<24729, 3000>>,  <<56326, 15971>>, <<90287, 25182>> >> >>
    IN  tab[col][row]

\* lng * 2 - mglng is written lng - (mglng - lng); the opening test
\* Math.PI > 4 is false
gcj02ToWgs84(lng, lat) ==
    IF ~isInChina(lng, lat) THEN [lng |-> lng, lat |-> lat]
    ELSE LET d == TransformOffset(lng, lat)
             mglat == lat + d[2]
             mglng == lng + d[1]
         IN  [lng |-> lng - (mglng - lng), lat |-> lat - (mglat - lat)]

wgs84ToGcj02(lng, lat) ==
    IF ~isInChina(lng, lat) THEN [lng |-> lng, lat |-> lat]
    ELSE LET d == TransformOffset(lng, lat)
         IN  [lng |-> lng + d[1], lat |-> lat + d[2]]


(***************************************************************************)
(* Inputs                                                                  *)
(***************************************************************************)
\* distance between neighbouring grid points: 0.0002 degree, about 22 m
GridStep == 2000

\* south-west corners the grid is placed at: on the equator and at 60 N
Bases == {[lat |-> 0, lng |-> 0], [lat |-> 60 * Degree, lng |-> 116 * Degree]}

GridPoint(b, i, j) == [lat |-> b.lat + i * GridStep, lng |-> b.lng + j * GridStep]

GridPoints(b) == {GridPoint(b, i, j) : i \in 0..GridN, j \in 0..GridN}

\* square, bow tie (self-intersecting) and chevron (concave)
Quads(b) ==
    {<<GridPoint(b, 0, 0), GridPoint(b, 0, 2), GridPoint(b, 2, 2), GridPoint(b, 2, 0)>>,
     <<GridPoint(b, 0, 0), GridPoint(b, 2, 2), GridPoint(b, 2, 0), GridPoint(b, 0, 2)>>,
     <<GridPoint(b, 0, 0), GridPoint(b, 1, 1), GridPoint(b, 0, 2), GridPoint(b, 2, 1)>>}

\* the base the boundaries of up to 3 points are placed at
Base60N == [lat |-> 60 * Degree, lng |-> 116 * Degree]

\* every boundary of at most 3 grid points that starts at grid point (1, 1),
\* and the quadrilaterals at both bases
Boundaries ==
    {s \in UNION {[1..n -> GridPoints(Base60N)] : n \in 0..3} :
        s # <<>> => s[1] = GridPoint(Base60N, 1, 1)}
    \cup UNION {Quads(b) : b \in Bases}

\* an options object is a function from the keys that are set
NoOption == [k \in {} |-> 0]

SpacingOptions ==
    {NoOption,
     "spacing" :> 500,
     "useCamera" :> TRUE @@ "camera" :> CameraM30T,
     "useCamera" :> TRUE @@ "camera" :> CameraM30T @@ "overlapRate" :> 0,
     "useCamera" :> TRUE @@ "camera" :> CameraM30T @@ "overlapRate" :> 100}

AngleOptions == {NoOption, "angle" :> 45, "angle" :> 90, "angle" :> 180}

MarginOptions == {NoOption, "margin" :> 500, "margin" :> 5000}

FlightOptions == {NoOption, "height" :> 80 @@ "speed" :> 10}

OptimizeOptions == {NoOption, "optimizePath" :> FALSE}

OptionSets ==
    {s @@ a @@ m @@ f @@ p :
        s \in SpacingOptions, a \in AngleOptions, m \in MarginOptions,
        f \in FlightOptions, p \in OptimizeOptions}

\* planar points handed directly to optimizeRoutePath: 10 cm apart, so that
\* cross products are multiples of the tolerance
OptPoints == {[x |-> 10 * i, y |-> 10 * j] : i \in 0..2, j \in 0..1}

OptInputs == UNION {[1..n -> OptPoints] : n \in 0..MaxOptLen}

\* waypoints handed directly to calculateRouteStats
StatsPoints ==
    {pos @@ sp :
        pos \in {[lat |-> 0, lng |-> 0], [lat |-> 0, lng |-> 2000],
                 [lat |-> 3000, lng |-> 4000]},
        sp \in {NoOption, "speed" :> 0, "speed" :> 5, "speed" :> 10}}

StatsInputs == UNION {[1..n -> StatsPoints] : n \in 0..MaxStatsLen}

\* points handed to the geodetic transform: on, next to and far from the bounds
TransformLngs ==
    {-1224000000, ChinaMinLng - 1, ChinaMinLng, 1164000000, ChinaMaxLng, ChinaMaxLng + 1}

TransformLats ==
    {ChinaMinLat - 1, ChinaMinLat, 377000000, 399000000, ChinaMaxLat, ChinaMaxLat + 1}

TransformInputs == {[lng |-> g, lat |-> t] : g \in TransformLngs, t \in TransformLats}

\* the square on the equator
Square == <<GridPoint([lat |-> 0, lng |-> 0], 0, 0), GridPoint([lat |-> 0, lng |-> 0], 0, 2),
            GridPoint([lat |-> 0, lng |-> 0], 2, 2), GridPoint([lat |-> 0, lng |-> 0], 2, 0)>>

\* boundaries and configurations of the repeated calls
RepeatBoundaries == {Square, SubSeq(Square, 1, 2)}

RepeatOptions ==
    {NoOption, "spacing" :> 500, "spacing" :> 500 @@ "angle" :> 45 @@ "margin" :> 500}

(***************************************************************************)
(* Application state (WaypointGenerator/index.vue)                         *)
(***************************************************************************)
\* the value null of a ref, and a ref holding the value v
Null == <<>>
Ref(v) == <<v>>

\* the fields of defaultMissionConfig the generation reads; polygonRoute is
\* not set
defaultMissionConfig ==
    [routeType |-> "waypoint", globalHeight |-> 50, globalSpeed |-> 5,
     polygonRoute |-> NoOption]

\* CAMERA_PRESETS, lengths in 0.01 mm
CAMERA_PRESETS ==
    "m3e" :> [sensorWidth |-> 1730, sensorHeight |-> 1300, focalLength |-> 2400,
              imageWidth |-> 5280, imageHeight |-> 3956]
    @@ "m3t" :> [sensorWidth |-> 640, sensorHeight |-> 480, focalLength |-> 450,
                 imageWidth |-> 1920, imageHeight |-> 1440]
    @@ "m30t" :> CameraM30T
    @@ "m300" :> [sensorWidth |-> 3590, sensorHeight |-> 2400, focalLength |-> 3500,
                  imageWidth |-> 8192, imageHeight |-> 5460]

\* o[k] || d for a numeric field
OrElse(o, k, d) == IF k \in DOMAIN o /\ o[k] # 0 THEN o[k] ELSE d

\* the camera the automatic spacing mode hands over; with the preset
\* 'custom' and no customCamera the key stays undefined
CameraOption(polygonConfig) ==
    LET preset == Opt(polygonConfig, "cameraPreset", "")
    IN  IF preset = "custom"
        THEN (IF "customCamera" \in DOMAIN polygonConfig
              THEN "camera" :> polygonConfig.customCamera ELSE NoOption)
        ELSE IF preset \in DOMAIN CAMERA_PRESETS
        THEN "camera" :> CAMERA_PRESETS[preset]
        ELSE "camera" :> CAMERA_PRESETS["m30t"]

\* the options object generatePolygonRouteInternal builds from missionConfig
\* (spacing in cm, overlap in percent)
OptionsOf(config, polygonConfig) ==
    ("height" :> (IF config.globalHeight # 0 THEN config.globalHeight ELSE 50))
    @@ ("speed" :> (IF config.globalSpeed # 0 THEN config.globalSpeed ELSE 5))
    @@ ("angle" :> OrElse(polygonConfig, "angle", 0))
    @@ ("margin" :> OrElse(polygonConfig, "margin", 0))
    @@ ("optimizePath" :> Opt(polygonConfig, "optimizePath", TRUE))
    @@ (IF Opt(polygonConfig, "spacingMode", "") = "auto"
        THEN ("useCamera" :> TRUE)
             @@ ("overlapRate" :> OrElse(polygonConfig, "overlapLateral", 70))
             @@ CameraOption(polygonConfig)
        ELSE "spacing" :> OrElse(polygonConfig, "spacing", 3000))

\* the configuration the panel emits: localConfig with its initial values,
\* lengths in cm, overlap in percent
localConfig ==
    ("spacingMode" :> "manual") @@ ("spacing" :> 3000) @@ ("angle" :> 0)
    @@ ("margin" :> 0) @@ ("overlapLateral" :> 70) @@ ("optimizePath" :> TRUE)
    @@ ("cameraPreset" :> "custom") @@ ("customCamera" :> CameraM30T)

\* edits of the panel: a manual spacing of 100 m, wider than the boundaries
\* the model draws, and the automatic mode
PolygonRouteConfigs ==
    {("spacing" :> 10000) @@ localConfig,
     ("spacingMode" :> "auto") @@ localConfig}

RouteTypes == {"waypoint", "mapping", "patrol"}

\* places the user clicks on the map, each at most once: the corners of a
\* triangle
AppPoints ==
    {GridPoint([lat |-> 0, lng |-> 0], 0, 0), GridPoint([lat |-> 0, lng |-> 0], 0, 2),
     GridPoint([lat |-> 0, lng |-> 0], 2, 1)}

\* the places of AppPoints that hold no boundary point yet
FreePoints(wps) ==
    {c \in AppPoints : \A i \in 1..Len(wps) : wps[i].lat # c.lat \/ wps[i].lng # c.lng}

\* the waypoint onMapClick pushes for a click at coords
ClickedPoint(coords, config) ==
    [lat |-> coords.lat, lng |-> coords.lng,
     height |-> config.globalHeight, speed |-> config.globalSpeed]

\* missions loaded from localStorage: a mapping mission over the triangle and
\* a patrol mission of two points
missions ==
    {[config |-> [defaultMissionConfig EXCEPT !.routeType = "mapping"],
      waypoints |-> <<ClickedPoint(GridPoint([lat |-> 0, lng |-> 0], 0, 0), defaultMissionConfig),
                      ClickedPoint(GridPoint([lat |-> 0, lng |-> 0], 0, 2), defaultMissionConfig),
                      ClickedPoint(GridPoint([lat |-> 0, lng |-> 0], 2, 1), defaultMissionConfig)>>],
     [config |-> [defaultMissionConfig EXCEPT !.routeType = "patrol"],
      waypoints |-> <<ClickedPoint(GridPoint([lat |-> 0, lng |-> 0], 0, 0), defaultMissionConfig),
                      ClickedPoint(GridPoint([lat |-> 0, lng |-> 0], 2, 1), defaultMissionConfig)>>]}

\* the boundaries of 3 points the clicks and the missions can build
AppBoundaries ==
    {wps \in [1..3 -> {ClickedPoint(c, defaultMissionConfig) : c \in AppPoints}] :
        \A i, j \in 1..3 : wps[i] = wps[j] => i = j}

\* the options objects the configurations of the model give
AppOptions ==
    {OptionsOf(defaultMissionConfig, r) : r \in {NoOption} \cup PolygonRouteConfigs}

\* generatePolygonRoute and calculateRouteStats over the arguments the
\* application hands them, evaluated once
generatedPaths ==
    {[bp |-> bp, o |-> o, path |-> generatePolygonRoute(bp, o)] :
        bp \in AppBoundaries, o \in AppOptions}

computedStats ==
    {[path |-> g.path, stats |-> calculateRouteStats(g.path)] : g \in generatedPaths}

GeneratedPath(bp, o) == (CHOOSE g \in generatedPaths : g.bp = bp /\ g.o = o).path

ComputedStats(path) == (CHOOSE c \in computedStats : c.path = path).stats

\* what generateScanPath of routePlanner may return for a patrol boundary
generateScanPath(wps) == {<<>>, wps}

\* no watcher run has been counted
NoBurst == [changes |-> 0, generations |-> 0]

(***************************************************************************)
(* State machine                                                           *)
(***************************************************************************)
NoPoint == [x |-> 0, y |-> 0]

Init ==
    /\ pc = "idle"
    /\ boundaryPoints = <<>>
    /\ options = NoOption
    /\ finalSpacing = 0
    /\ center = NoPoint
    /\ rotatedPolygon = <<>>
    /\ currentY = 0
    /\ lineIndex = 0
    /\ waypoints = <<>>
    /\ result = <<>>
    /\ arg = <<>>
    /\ ret = <<>>
    /\ earlier = <<>>
    /\ waypointsRef = <<>>
    /\ missionConfig = defaultMissionConfig
    /\ scanPath = <<>>
    /\ routeStats = Null
    /\ autoGenerateTimer = 0
    /\ timers = {}
    /\ watcherPending = FALSE
    /\ burst = NoBurst

\* generatePolygonRoute returns [] before the sweep
ReturnEmpty ==
    /\ pc' = "done"
    /\ result' = <<>>
    /\ UNCHANGED <<finalSpacing, center, rotatedPolygon, currentY, lineIndex, waypoints>>

\* the sweep entered with a line counter that outlives the call
EnterSweep_SharedLineIndex(o, c, rotated, spacing) ==
    /\ pc' = "sweep"
    /\ finalSpacing' = spacing
    /\ center' = c
    /\ rotatedPolygon' = rotated
    /\ currentY' = getBoundingBox(rotated).minY + RDiv(spacing, 2)
    /\ lineIndex' = lineIndex
    /\ waypoints' = <<>>
    /\ result' = <<>>

\* the sweep started on the lower edge of the box instead of half a spacing in
EnterSweep_FromMinY(o, c, rotated, spacing) ==
    /\ pc' = "sweep"
    /\ finalSpacing' = spacing
    /\ center' = c
    /\ rotatedPolygon' = rotated
    /\ currentY' = getBoundingBox(rotated).minY
    /\ lineIndex' = 0
    /\ waypoints' = <<>>
    /\ result' = <<>>

\* steps 6-7: bounding box and the first scan line
EnterSweep(o, c, rotated, spacing) ==
    /\ pc' = "sweep"
    /\ finalSpacing' = spacing
    /\ center' = c
    /\ rotatedPolygon' = rotated
    /\ currentY' = getBoundingBox(rotated).minY + RDiv(spacing, 2)
    /\ lineIndex' = 0
    /\ waypoints' = <<>>
    /\ result' = <<>>

\* steps 4-5: centre and rotation
RotateAndSweep(o, polygon, c) ==
    EnterSweep(o, c, Rotate(polygon, Opt(o, "angle", DefaultAngle), c), FinalSpacing(o))

\* the length test that follows the margin step
AfterMargin(o, polygon) ==
    IF Opt(o, "margin", DefaultMargin) > 0 /\ Len(polygon) < 3
    THEN ReturnEmpty
    ELSE RotateAndSweep(o, polygon, getPolygonCenter(polygon))

\* generatePolygonRoute, from its entry to the head of the while loop; the
\* opening test of EARTH_RADIUS is false for the constant 6378137
Generate(bp, o) ==
    /\ boundaryPoints' = bp
    /\ options' = o
    /\ IF TooFewPoints(bp)
       THEN ReturnEmpty
       ELSE AfterMargin(o, ApplyMargin(Project(bp), Opt(o, "margin", DefaultMargin)))

\* a call of generatePolygonRoute with any boundary and configuration
GenerateCall ==
    /\ pc = "idle"
    /\ \E bp \in Boundaries, o \in OptionSets : Generate(bp, o)
    /\ UNCHANGED <<arg, ret, historyVars, appVars>>

\* one iteration of the while loop of generatePolygonRoute
SweepLine ==
    /\ pc = "sweep"
    /\ currentY <= getBoundingBox(rotatedPolygon).maxY
    /\ lineIndex < MaxLines
    /\ waypoints' = waypoints \o LineWaypoints(rotatedPolygon, currentY, lineIndex)
    /\ currentY' = currentY + finalSpacing
    /\ lineIndex' = lineIndex + 1
    /\ UNCHANGED <<pc, boundaryPoints, options, finalSpacing, center,
                   rotatedPolygon, result, arg, ret, historyVars, appVars>>

\* generatePolygonRoute, from the exit of the while loop to its return
GenerateReturn ==
    /\ pc = "sweep"
    /\ ~(currentY <= getBoundingBox(rotatedPolygon).maxY)
    /\ result' = BuildResult(waypoints, options, boundaryPoints[1], center)
    /\ pc' = "done"
    /\ UNCHANGED <<boundaryPoints, options, finalSpacing, center, rotatedPolygon,
                   currentY, lineIndex, waypoints, arg, ret, historyVars, appVars>>

\* a call of generatePolygonRoute that follows earlier calls; what those left
\* in the function's variables is still there
RepeatCall ==
    /\ pc = "idle"
    /\ \E bp \in RepeatBoundaries, o \in RepeatOptions : Generate(bp, o)
    /\ UNCHANGED <<arg, ret, historyVars, appVars>>

\* the call returns; the caller may note its arguments and its result
ReturnToCaller ==
    /\ pc = "done"
    /\ pc' = "idle"
    /\ \/ /\ Len(earlier) < MaxRemembered
          /\ earlier' = Append(earlier, [boundaryPoints |-> boundaryPoints,
                                         options |-> options, result |-> result])
       \/ earlier' = earlier
    /\ UNCHANGED <<boundaryPoints, options, finalSpacing, center, rotatedPolygon,
                   currentY, lineIndex, waypoints, result, arg, ret, burst, appVars>>

\* no callback is running and no watcher job is queued: the next task may run
Idle == pc = "idle" /\ ~watcherPending

\* generatePolygonRouteInternal, from the generator's return on
StoreRoute(generatedPath) ==
    IF Len(generatedPath) = 0
    THEN scanPath' = <<>> /\ routeStats' = Null
    ELSE scanPath' = generatedPath /\ routeStats' = Ref(ComputedStats(generatedPath))

\* generatePolygonRouteInternal; the callback that calls it runs to its end
\* before any other task
generatePolygonRouteInternal ==
    IF Len(waypointsRef) < 3
    THEN scanPath' = <<>> /\ routeStats' = Null
    ELSE StoreRoute(GeneratedPath(waypointsRef,
                                  OptionsOf(missionConfig, missionConfig.polygonRoute)))

onMapClick ==
    /\ Idle
    /\ \E coords \in FreePoints(waypointsRef) :
          waypointsRef' = Append(waypointsRef, ClickedPoint(coords, missionConfig))
    /\ watcherPending' = TRUE
    /\ UNCHANGED <<engineVars, historyVars, missionConfig, scanPath, routeStats,
                   autoGenerateTimer, timers>>

onMissionCreated ==
    /\ Idle
    /\ \E routeType \in RouteTypes :
          missionConfig' = [defaultMissionConfig EXCEPT !.routeType = routeType]
    /\ waypointsRef' = <<>>
    /\ scanPath' = <<>>
    /\ watcherPending' = TRUE
    /\ UNCHANGED <<engineVars, historyVars, routeStats, autoGenerateTimer, timers>>

selectMission ==
    /\ Idle
    /\ \E mission \in missions :
          /\ missionConfig' = mission.config
          /\ waypointsRef' = mission.waypoints
    /\ watcherPending' = TRUE
    /\ UNCHANGED <<engineVars, historyVars, scanPath, routeStats,
                   autoGenerateTimer, timers>>

\* the configurations the control panel emits: the current one with another
\* route type, or with the polygonRoute section of the panel
ConfigEdits(config) ==
    {[config EXCEPT !.routeType = t] : t \in RouteTypes}
    \cup {[config EXCEPT !.polygonRoute = r] : r \in PolygonRouteConfigs}

\* a watcher that lists the route type only
WatchTriggered_RouteTypeOnly(oldConfig, newConfig) ==
    oldConfig.routeType # newConfig.routeType

\* the watcher lists routeType, globalHeight, globalSpeed, polygonRoute and
\* scanSetting of missionConfig.value with deep: true: replacing the object
\* queues it
WatchTriggered(oldConfig, newConfig) == TRUE

onMissionConfigUpdate ==
    /\ Idle
    /\ \E newConfig \in ConfigEdits(missionConfig) :
          /\ missionConfig' = newConfig
          /\ watcherPending' = WatchTriggered(missionConfig, newConfig)
    /\ UNCHANGED <<engineVars, historyVars, waypointsRef, scanPath, routeStats,
                   autoGenerateTimer, timers>>

\* Array.prototype.splice(index, 1), index counted from 1
Splice(s, index) == SubSeq(s, 1, index - 1) \o SubSeq(s, index + 1, Len(s))

removeWaypoint ==
    /\ Idle
    /\ \E index \in 1..Len(waypointsRef) : waypointsRef' = Splice(waypointsRef, index)
    /\ watcherPending' = TRUE
    /\ UNCHANGED <<engineVars, historyVars, missionConfig, scanPath, routeStats,
                   autoGenerateTimer, timers>>

clearWaypoints ==
    /\ Idle
    /\ waypointsRef' = <<>>
    /\ scanPath' = <<>>
    /\ watcherPending' = TRUE
    /\ UNCHANGED <<engineVars, historyVars, missionConfig, routeStats,
                   autoGenerateTimer, timers>>

\* Array.prototype.reverse
Reverse(s) == [i \in 1..Len(s) |-> s[Len(s) + 1 - i]]

\* a reversal that moves no element triggers nothing
reverseWaypoints ==
    /\ Idle
    /\ Reverse(waypointsRef) # waypointsRef
    /\ waypointsRef' = Reverse(waypointsRef)
    /\ watcherPending' = TRUE
    /\ UNCHANGED <<engineVars, historyVars, missionConfig, scanPath, routeStats,
                   autoGenerateTimer, timers>>

\* the manual generation
handleGeneratePolygonRoute ==
    /\ Idle
    /\ generatePolygonRouteInternal
    /\ UNCHANGED <<engineVars, historyVars, waypointsRef, missionConfig,
                   autoGenerateTimer, timers, watcherPending>>

\* the pending timeouts without the one the handle names
ClearTimeout_Missing(pending, handle) == pending

\* if (autoGenerateTimer) clearTimeout(autoGenerateTimer)
ClearTimeout(pending, handle) == pending \ {handle}

\* the handle setTimeout returns: one that was not handed out before
NewTimer(pending, handle) ==
    CHOOSE id \in 1..(Cardinality(pending) + 2) :
        /\ id \notin pending \cup {handle}
        /\ \A other \in 1..(id - 1) : other \in pending \cup {handle}

\* the watcher's branch for the route type 'mapping'
ScheduleGeneration(cleared, id) ==
    /\ autoGenerateTimer' = id
    /\ timers' = cleared \cup {id}
    /\ burst' = IF timers = {}
                THEN [changes |-> 1, generations |-> 0]
                ELSE [burst EXCEPT !.changes = Min(@ + 1, MaxBurst)]
    /\ UNCHANGED <<scanPath, routeStats>>

\* the watcher's branch for the route type 'patrol'
PatrolScan(cleared) ==
    /\ IF Len(waypointsRef) >= 3
       THEN scanPath' \in generateScanPath(waypointsRef)
       ELSE scanPath' = <<>>
    /\ timers' = cleared
    /\ burst' = NoBurst
    /\ UNCHANGED <<routeStats, autoGenerateTimer>>

\* the watcher's branch for the other route types
ClearRoute(cleared) ==
    /\ scanPath' = <<>>
    /\ routeStats' = Null
    /\ timers' = cleared
    /\ burst' = NoBurst
    /\ UNCHANGED autoGenerateTimer

\* the callback of watch, run in the flush that follows a change
RunWatcher ==
    /\ pc = "idle"
    /\ watcherPending
    /\ watcherPending' = FALSE
    /\ IF missionConfig.routeType = "mapping"
       THEN ScheduleGeneration(ClearTimeout(timers, autoGenerateTimer),
                               NewTimer(ClearTimeout(timers, autoGenerateTimer),
                                        autoGenerateTimer))
       ELSE IF missionConfig.routeType = "patrol"
       THEN PatrolScan(ClearTimeout(timers, autoGenerateTimer))
       ELSE ClearRoute(ClearTimeout(timers, autoGenerateTimer))
    /\ UNCHANGED <<engineVars, earlier, waypointsRef, missionConfig>>

\* a pending timeout expires and its callback runs
TimerFire ==
    /\ Idle
    /\ \E id \in timers : timers' = timers \ {id}
    /\ burst' = [burst EXCEPT !.generations = @ + 1]
    /\ generatePolygonRouteInternal
    /\ UNCHANGED <<engineVars, earlier, waypointsRef, missionConfig,
                   autoGenerateTimer, watcherPending>>

\* a direct call of optimizeRoutePath
OptimizeCall ==
    /\ pc = "idle"
    /\ \E wps \in OptInputs :
        /\ arg' = wps
        /\ ret' = optimizeRoutePath(wps)
    /\ pc' = "optimized"
    /\ UNCHANGED <<boundaryPoints, options, finalSpacing, center, rotatedPolygon,
                   currentY, lineIndex, waypoints, result, historyVars, appVars>>

\* a call of calculateRouteStats
StatsCall ==
    /\ pc = "idle"
    /\ \E wps \in StatsInputs :
        /\ arg' = wps
        /\ ret' = calculateRouteStats(wps)
    /\ pc' = "stats"
    /\ UNCHANGED <<boundaryPoints, options, finalSpacing, center, rotatedPolygon,
                   currentY, lineIndex, waypoints, result, historyVars, appVars>>

\* a call of gcj02ToWgs84
ToWgs84Call ==
    /\ pc = "idle"
    /\ \E p \in TransformInputs :
        /\ arg' = p
        /\ ret' = gcj02ToWgs84(p.lng, p.lat)
    /\ pc' = "toWgs84"
    /\ UNCHANGED <<boundaryPoints, options, finalSpacing, center, rotatedPolygon,
                   currentY, lineIndex, waypoints, result, historyVars, appVars>>

\* a call of wgs84ToGcj02
ToGcj02Call ==
    /\ pc = "idle"
    /\ \E p \in TransformInputs :
        /\ arg' = p
        /\ ret' = wgs84ToGcj02(p.lng, p.lat)
    /\ pc' = "toGcj02"
    /\ UNCHANGED <<boundaryPoints, options, finalSpacing, center, rotatedPolygon,
                   currentY, lineIndex, waypoints, result, historyVars, appVars>>

\* the returned point is converted back by the other function
ConvertBack ==
    /\ pc \in {"toWgs84", "toGcj02"}
    /\ ret' = IF pc = "toWgs84" THEN wgs84ToGcj02(ret.lng, ret.lat)
                                ELSE gcj02ToWgs84(ret.lng, ret.lat)
    /\ pc' = IF pc = "toWgs84" THEN "toWgs84AndBack" ELSE "toGcj02AndBack"
    /\ UNCHANGED <<boundaryPoints, options, finalSpacing, center, rotatedPolygon,
                   currentY, lineIndex, waypoints, result, arg, historyVars, appVars>>

\* the caller drops the returned value; the next call starts afresh
Discard ==
    /\ pc \in {"done", "optimized", "stats", "toWgs84AndBack", "toGcj02AndBack"}
    /\ pc' = "idle"
    /\ boundaryPoints' = <<>>
    /\ options' = NoOption
    /\ finalSpacing' = 0
    /\ center' = NoPoint
    /\ rotatedPolygon' = <<>>
    /\ currentY' = 0
    /\ lineIndex' = 0
    /\ waypoints' = <<>>
    /\ result' = <<>>
    /\ arg' = <<>>
    /\ ret' = <<>>
    /\ UNCHANGED <<historyVars, appVars>>

\* the route generator
Next == GenerateCall \/ SweepLine \/ GenerateReturn \/ Discard

Spec == Init /\ [][Next]_vars

\* the path optimizer on its own
NextOptimizer == OptimizeCall \/ Discard

SpecOptimizer == Init /\ [][NextOptimizer]_vars

\* the route statistics
NextStats == StatsCall \/ Discard

SpecStats == Init /\ [][NextStats]_vars

\* the geodetic transform
NextTransform == ToWgs84Call \/ ToGcj02Call \/ ConvertBack \/ Discard

SpecTransform == Init /\ [][NextTransform]_vars

\* calls of the route generator one after another
NextRepeat == RepeatCall \/ SweepLine \/ GenerateReturn \/ ReturnToCaller

SpecRepeat == Init /\ [][NextRepeat]_vars

\* the application: user events, the watcher and the timer
NextApp ==
    \/ onMapClick \/ removeWaypoint \/ clearWaypoints \/ reverseWaypoints
    \/ onMissionCreated \/ selectMission \/ onMissionConfigUpdate
    \/ handleGeneratePolygonRoute
    \/ RunWatcher \/ TimerFire

SpecApp == Init /\ [][NextApp]_vars

\* the flush runs a queued watcher and an expired timeout runs its callback
SpecAppFair == SpecApp /\ WF_vars(RunWatcher) /\ WF_vars(TimerFire)

(***************************************************************************)
(* Properties                                                              *)
(***************************************************************************)
\* no terminating run of the model is cut short by MaxLines
SweepWithinBound ==
    (pc = "sweep" /\ finalSpacing > 0
        /\ currentY <= getBoundingBox(rotatedPolygon).maxY) => lineIndex < MaxLines

\* the loop followed step by step returns what generatePolygonRoute denotes
StepsAgree ==
    (pc = "done" /\ finalSpacing > 0)
        => result = generatePolygonRoute(boundaryPoints, options)

\* C1: a boundary of fewer than 3 points returns the empty sequence, whatever
\* the configuration, and nothing is projected or swept.
C1_FewPointsEmpty ==
    (pc = "done" /\ Len(boundaryPoints) < 3)
        => (result = <<>> /\ rotatedPolygon = <<>> /\ waypoints = <<>> /\ lineIndex = 0)

C1_Witness ==
    pc = "done" /\ Len(boundaryPoints) = 2 /\ "useCamera" \in DOMAIN options

RECURSIVE IsSubsequence(_, _)
IsSubsequence(a, b) ==
    IF a = <<>> THEN TRUE
    ELSE IF b = <<>> THEN FALSE
    ELSE IF Head(a) = Head(b) THEN IsSubsequence(Tail(a), Tail(b))
    ELSE IsSubsequence(a, Tail(b))

\* C2: the optimizer's output is a subsequence of its input, in order, never
\* longer, with the input's first and last elements first and last.
C2_OptimizerSubsequence ==
    pc = "optimized" =>
        /\ Len(ret) <= Len(arg)
        /\ IsSubsequence(ret, arg)
        /\ arg # <<>> => (ret # <<>> /\ ret[1] = arg[1] /\ ret[Len(ret)] = arg[Len(arg)])

C2_Witness ==
    pc = "optimized" /\ Len(arg) = 4 /\ Len(ret) = 3 /\ arg[4] # arg[3]

\* C3: photoCount equals the number of waypoints for a sequence of any length.
C3_PhotoCountIsLength ==
    pc = "stats" => ret.photoCount = Len(arg)

\* C4: a sequence of 0 or 1 waypoints gives the zeroed record.
C4_ShortRouteZeroed ==
    (pc = "stats" /\ Len(arg) < 2) =>
        ret = [totalDistance |-> [type |-> "number", cm |-> 0],
               flightTime |-> 0, photoCount |-> 0]

C4_Witness ==
    pc = "stats" /\ Len(arg) = 1 /\ "speed" \in DOMAIN arg[1]

\* the configuration is inside the documented ranges
InDocumentedRange(o) ==
    /\ "spacing" \in DOMAIN o => o.spacing > 0
    /\ "overlapRate" \in DOMAIN o => o.overlapRate \in 0..100
    /\ "camera" \in DOMAIN o =>
          \A k \in DOMAIN o.camera : o.camera[k] > 0

\* C5: generatePolygonRoute terminates for every configuration inside the
\* documented ranges: every iteration of the sweep moves the scan line up
\* (the box's maxY is fixed, so the loop is then left after finitely many).
C5_SweepAdvances ==
    [][(pc = "sweep" /\ pc' = "sweep" /\ InDocumentedRange(options))
          => currentY' > currentY]_vars

\* all points of the boundary lie on one line (or coincide)
ZeroArea(bp) ==
    \A i, j \in 1..Len(bp) :
        (bp[i].lng - bp[1].lng) * (bp[j].lat - bp[1].lat)
            = (bp[i].lat - bp[1].lat) * (bp[j].lng - bp[1].lng)

\* C6: a zero-area boundary of at least 3 points returns the empty sequence.
C6_ZeroAreaEmpty ==
    (pc = "done" /\ Len(boundaryPoints) >= 3 /\ ZeroArea(boundaryPoints))
        => result = <<>>

\* the margin is positive and at least the mean centroid-to-vertex distance
ShrinksToNothing(bp, o) ==
    /\ "margin" \in DOMAIN o
    /\ o.margin > 0
    /\ o.margin >= AvgDistance(Project(bp), getPolygonCenter(Project(bp)))

\* C7: a margin that shrinks the polygon to nothing returns the empty sequence.
C7_ShrunkToNothingEmpty ==
    (pc = "done" /\ Len(boundaryPoints) >= 3
        /\ ShrinksToNothing(boundaryPoints, options)) => result = <<>>

\* the result holds the raw scan-line pairs, none removed by the optimizer
PairsIntact == Len(result) = Len(waypoints)

\* the two waypoints of pair k are distinct points
ProperPair(k) == waypoints[2 * k - 1] # waypoints[2 * k]

\* C8: with angle 0 the two waypoints of every scan-line pair share the
\* longitude and differ in latitude; with angle 90 they share the latitude
\* and differ in longitude.
C8_ScanDirection ==
    (pc = "done" /\ PairsIntact) =>
        LET angle == IF "angle" \in DOMAIN options THEN options.angle ELSE 0
        IN  \A k \in 1..(Len(result) \div 2) :
                ProperPair(k) =>
                    /\ angle = 0 =>
                          /\ result[2 * k - 1].lng = result[2 * k].lng
                          /\ result[2 * k - 1].lat # result[2 * k].lat
                    /\ angle = 90 =>
                          /\ result[2 * k - 1].lat = result[2 * k].lat
                          /\ result[2 * k - 1].lng # result[2 * k].lng

\* C9: every waypoint of a result carries the configured height (50 when
\* unset), the configured speed (5 when unset) and its 0-based position.
C9_HeightSpeedIndex ==
    pc = "done" =>
        \A i \in 1..Len(result) :
            /\ result[i].height = IF "height" \in DOMAIN options THEN options.height ELSE 50
            /\ result[i].speed = IF "speed" \in DOMAIN options THEN options.speed ELSE 5
            /\ result[i].index = i - 1

C9_Witness ==
    /\ pc = "done"
    /\ "height" \notin DOMAIN options
    /\ Len(result) > 2
    /\ Len(result) < Len(waypoints)

\* the point lies outside longitude 72.004..137.8347, latitude 0.8293..55.8271
OutsideRegion(p) ==
    p.lng < 720040000 \/ p.lng > 1378347000 \/ p.lat < 8293000 \/ p.lat > 558271000

\* C10: outside the region both conversions return the point unchanged, and
\* so does either conversion followed by the other.
C10_OutsideIdentity ==
    (pc \in {"toWgs84", "toGcj02", "toWgs84AndBack", "toGcj02AndBack"}
        /\ OutsideRegion(arg)) => ret = arg

C10_Witness ==
    pc = "toGcj02AndBack" /\ arg = [lng |-> -1224000000, lat |-> 377000000]

\* the call that has just returned repeats the arguments of the earlier call e
SameArguments(e) == e.boundaryPoints = boundaryPoints /\ e.options = options

\* C11: generatePolygonRoute is pure: while it runs, the boundary array, its
\* points and the options object stay as they were passed, and a call with
\* the arguments of an earlier call returns what that call returned, whatever
\* calls were made in between.
C11_Pure ==
    /\ [][pc = "sweep" => (boundaryPoints' = boundaryPoints /\ options' = options)]_vars
    /\ [](pc = "done" =>
            \A k \in 1..Len(earlier) : SameArguments(earlier[k]) => result = earlier[k].result)

C11_Witness ==
    /\ pc = "done"
    /\ Len(earlier) = 2
    /\ SameArguments(earlier[1])
    /\ ~SameArguments(earlier[2])
    /\ Len(earlier[2].result) > Len(result)
    /\ Len(result) > 0

\* C12: in route type 'mapping' at most one automatic generation is pending,
\* the one the handle names, and the watcher runs of one burst (each arriving
\* while the timer of the one before is pending) cause exactly one
\* generation: none while the timer is pending, one once it has fired.
C12_OnePendingGeneration ==
    /\ Cardinality(timers) <= 1
    /\ timers # {} => timers = {autoGenerateTimer}
    /\ burst.changes > 0 => burst.generations = (IF timers = {} THEN 1 ELSE 0)

C12_Witness ==
    /\ burst.changes = 3
    /\ burst.generations = 1
    /\ missionConfig.routeType = "mapping"
    /\ Len(scanPath) > 0

\* a change of the boundary points or of the configuration
UserChange ==
    \/ onMapClick \/ removeWaypoint \/ clearWaypoints \/ reverseWaypoints
    \/ onMissionCreated \/ selectMission \/ onMissionConfigUpdate

\* what generatePolygonRouteInternal leaves in scanPath and routeStats for the
\* boundary points wps and the configuration config
ScanPathFor(wps, config) ==
    IF Len(wps) < 3 THEN <<>>
    ELSE generatePolygonRoute(wps, OptionsOf(config, config.polygonRoute))

RouteStatsFor(path) == IF Len(path) = 0 THEN <<>> ELSE <<calculateRouteStats(path)>>

\* scanPath and routeStats are those of the current boundary and configuration
Fresh(path) == scanPath = path /\ routeStats = RouteStatsFor(path)

\* route type 'mapping', and every change has had its watcher run and its timer
Settled ==
    missionConfig.routeType = "mapping" /\ pc = "idle" /\ ~watcherPending /\ timers = {}

\* C13: in route type 'mapping', once the changes stop, scanPath and routeStats
\* come to hold, and keep, the result of generating from the latest boundary
\* and configuration (empty path and null stats when there is no route); and
\* whenever the timer of the newest change has fired, scanPath holds no
\* result of an earlier input.
C13_LatestInputRetained ==
    /\ [](Settled => Fresh(ScanPathFor(waypointsRef, missionConfig)))
    /\ (<>[][~UserChange]_vars)
          => <>[](missionConfig.routeType = "mapping"
                    => Fresh(ScanPathFor(waypointsRef, missionConfig)))

C13_Witness ==
    /\ Settled
    /\ burst.changes >= 2
    /\ missionConfig.polygonRoute # NoOption
    /\ Len(scanPath) > 0
    /\ scanPath = ScanPathFor(waypointsRef, missionConfig)
    /\ scanPath # ScanPathFor(waypointsRef, defaultMissionConfig)

\* the waypoints the sweep step has just pushed
PushedWaypoints == SubSeq(waypoints', Len(waypoints) + 1, Len(waypoints'))

\* the X of s never decreases (left to right) or never increases
MonotoneX(s, isLeftToRight) ==
    \A i \in 1..(Len(s) - 1) :
        IF isLeftToRight THEN s[i].x <= s[i + 1].x ELSE s[i].x >= s[i + 1].x

\* C14: the waypoints of one scan line, however many pairs it has, are
\* emitted with non-decreasing X on even lines and non-increasing X on odd
\* lines, the line index counting every swept line from 0.
C14_MonotoneLines ==
    [][(pc = "sweep" /\ lineIndex' = lineIndex + 1)
          => MonotoneX(PushedWaypoints, lineIndex % 2 = 0)]_vars

\* |dx1*dy2 - dy1*dx2| at the point b between a and c, in cm^2
CrossAt(a, b, c) ==
    Abs((b.x - a.x) * (c.y - b.y) - (b.y - a.y) * (c.x - b.x))

\* the positions of s the rule keeps: both ends, and the interior points whose
\* cross product with their neighbours in s exceeds 0.01 m^2 = 100 cm^2
KeptPositions(s) ==
    {1, Len(s)} \cup {i \in 2..(Len(s) - 1) : CrossAt(s[i - 1], s[i], s[i + 1]) > 100}

\* the elements of s at the positions of the set, in order
Selected(s, positions) ==
    [k \in 1..Cardinality(positions) |->
        s[CHOOSE i \in positions : Cardinality({j \in positions : j < i}) = k - 1]]

\* C15: the optimizer returns a sequence of length 2 or less unchanged, and
\* otherwise keeps an interior point exactly when its cross product with its
\* neighbours in the input exceeds 0.01; a cross product of exactly 0.01
\* drops the point.
C15_OptimizerRule ==
    pc = "optimized" =>
        ret = IF Len(arg) <= 2 THEN arg ELSE Selected(arg, KeptPositions(arg))

\* the second point lies exactly at the tolerance and is dropped; the third is
\* kept by its input neighbours, and would go if judged against the first
C15_Witness ==
    /\ pc = "optimized"
    /\ Len(arg) = 4
    /\ CrossAt(arg[1], arg[2], arg[3]) = 100
    /\ CrossAt(arg[2], arg[3], arg[4]) > 100
    /\ CrossAt(arg[1], arg[3], arg[4]) = 0
    /\ ret = <<arg[1], arg[3], arg[4]>>

\* the line Y_k = minY + s/2 + k*s of the box and the spacing s
LineY(box, s, k) == box.minY + RDiv(s, 2) + k * s

\* the Y values that occur among the raw waypoints
DistinctYs == {waypoints[i].y : i \in 1..Len(waypoints)}

\* the lines swept so far are Y_0 .. Y_(lineIndex-1), all within the box, the
\* next candidate is Y_lineIndex, and the raw waypoints lie on swept lines
\* only, in the order of the lines
SweptLines(box, s) ==
    /\ currentY = LineY(box, s, lineIndex)
    /\ \A k \in 0..(lineIndex - 1) : LineY(box, s, k) <= box.maxY
    /\ DistinctYs \subseteq {LineY(box, s, k) : k \in 0..(lineIndex - 1)}
    /\ \A i \in 1..(Len(waypoints) - 1) : waypoints[i].y <= waypoints[i + 1].y

\* the sweep is over: the next candidate lies above the box, and the number of
\* lines with waypoints is within 1 of floor((maxY - minY) / s), and is 0 when
\* s/2 > maxY - minY
SweepComplete(box, s) ==
    /\ LineY(box, s, lineIndex) > box.maxY
    /\ Abs(Cardinality(DistinctYs) - ((box.maxY - box.minY) \div s)) <= 1
    /\ RDiv(s, 2) > box.maxY - box.minY => Cardinality(DistinctYs) = 0

\* C16: with a positive spacing s the sweep visits exactly the lines
\* Y_k = minY + s/2 + k*s with Y_k <= maxY, in increasing k, and no other;
\* the number of distinct Y among the raw waypoints differs from
\* floor((maxY - minY) / s) by at most 1 and is 0 when s/2 > maxY - minY.
C16_SweepLines ==
    (pc \in {"sweep", "done"} /\ finalSpacing > 0) =>
        /\ SweptLines(getBoundingBox(rotatedPolygon), finalSpacing)
        /\ pc = "done" => SweepComplete(getBoundingBox(rotatedPolygon), finalSpacing)

\* three lines and more, and one line more than floor((maxY - minY) / s)
C16_Witness ==
    /\ pc = "done"
    /\ finalSpacing > 0
    /\ lineIndex >= 3
    /\ Cardinality(DistinctYs) = lineIndex
    /\ lineIndex = ((getBoundingBox(rotatedPolygon).maxY
                      - getBoundingBox(rotatedPolygon).minY) \div finalSpacing) + 1

\* the watcher has run and no timer is pending
Quiescent == pc = "idle" /\ ~watcherPending /\ timers = {}

\* C17: whatever the user did, once the watcher and any pending timer have
\* run, routeStats is null or the statistics of the current scanPath: the
\* statistics of an earlier path never stand next to another or an empty
\* scanPath.
C17_StatsMatchPath ==
    Quiescent => (routeStats = Null \/ routeStats = <<calculateRouteStats(scanPath)>>)

\* heights the crossing test is tried at: the next scan line, and every vertex
\* height with the heights just below and above it
ProbeYs(poly, y) ==
    {y} \cup UNION {{poly[i].y - 1, poly[i].y, poly[i].y + 1} : i \in 1..Len(poly)}

\* n intersections at the height y of a polygon with the box: an even number,
\* at least one pair from minY up to, but not at, maxY, and none at maxY
EvenCrossings(n, y, box) ==
    /\ n % 2 = 0
    /\ (box.minY <= y /\ y < box.maxY) => n >= 2
    /\ y >= box.maxY => n = 0

\* the pairing loop turns every intersection of the line into a waypoint
NothingDiscarded(poly, y) ==
    Len(LineWaypoints(poly, y, lineIndex)) = Len(IntersectionsFrom(poly, y, 1))

\* C18: for a closed polygon of at least 3 vertices, simple or not, the
\* crossing test over all edges gives an even number of intersections at every
\* height, so no trailing intersection is ever discarded and the raw waypoint
\* count is even; a line with minY <= Y < maxY gives at least one pair and a
\* line at maxY none.
C18_EvenIntersections ==
    (pc \in {"sweep", "done"} /\ Len(rotatedPolygon) >= 3) =>
        /\ \A y \in ProbeYs(rotatedPolygon, currentY) :
              /\ EvenCrossings(Len(IntersectionsFrom(rotatedPolygon, y, 1)), y,
                               getBoundingBox(rotatedPolygon))
              /\ NothingDiscarded(rotatedPolygon, y)
        /\ Len(waypoints) % 2 = 0

\* a line of two pairs is about to be swept, lines have been swept, and a
\* vertex lies strictly between the lower and the upper edge of the box
C18_Witness ==
    /\ pc = "sweep"
    /\ lineIndex >= 1
    /\ Len(waypoints) >= 4
    /\ Len(IntersectionsFrom(rotatedPolygon, currentY, 1)) = 4
    /\ \E i \in 1..Len(rotatedPolygon) :
          /\ rotatedPolygon[i].y > getBoundingBox(rotatedPolygon).minY
          /\ rotatedPolygon[i].y < getBoundingBox(rotatedPolygon).maxY

\* the raw waypoint p is the intersection of its scan line with an edge of the
\* polygon, between the ends of that edge
OnEdge(poly, p) ==
    \E i \in 1..Len(poly) :
        LET p1 == poly[i]
            p2 == poly[(i % Len(poly)) + 1]
        IN  /\ Crosses(p1, p2, p.y)
            /\ p.x = IntersectionX(p1, p2, p.y)
            /\ Min(p1.x, p2.x) <= p.x
            /\ p.x <= Max(p1.x, p2.x)

InBox(box, p) ==
    /\ box.minX <= p.x
    /\ p.x <= box.maxX
    /\ box.minY < p.y
    /\ p.y <= box.maxY

\* the waypoint r of the result is the raw waypoint p rotated back and
\* unprojected
FromRaw(r, p) ==
    LET q == ResultPoint(1, p, waypoints, options, boundaryPoints[1], center,
                         rotatePoint(p, Opt(options, "angle", DefaultAngle), center))
    IN  r.lat = q.lat /\ r.lng = q.lng

\* C19: every raw waypoint of the sweep lies on an edge of the shrunk, rotated
\* polygon at the Y of its scan line and inside the bounding box of that
\* polygon, minX <= x <= maxX and minY < y <= maxY; every waypoint of the
\* result comes from one of the raw waypoints.
C19_WaypointsOnEdges ==
    /\ pc \in {"sweep", "done"} =>
          \A k \in 1..Len(waypoints) :
              /\ OnEdge(rotatedPolygon, waypoints[k])
              /\ InBox(getBoundingBox(rotatedPolygon), waypoints[k])
    /\ pc = "done" =>
          \A i \in 1..Len(result) : \E k \in 1..Len(waypoints) : FromRaw(result[i], waypoints[k])

=============================================================================
